---- MODULE Spec2Model ----
(***************************************************************************)
(* A model of server/pdf-extractor.ts: the Row Cleaner (cleanValue), the   *)
(* Table Normalizer (convertJsonToParsedData) and the two extraction       *)
(* functions (extractTableFromPDFBuffer, extractTableFromPDF).             *)
(*                                                                         *)
(* JavaScript strings are sequences of their UTF-16 code units, one        *)
(* one-character string each, so that trimming, regular-expression         *)
(* replacement, Number() and String() are computed character by character. *)
(* A character that a string of this module cannot hold is written as its  *)
(* code point: "U+2028" is the one character LINE SEPARATOR.  JavaScript   *)
(* values are tagged records ([t |-> "null"], [t |-> "str", s |-> <<..>>]).*)
(***************************************************************************)
EXTENDS Integers, Sequences, FiniteSets, TLC

VARIABLES
    pc,          \* position of the call under study
    value,       \* cleanValue: its argument
    cleaned,     \* cleanValue: its return value
    jsonData,    \* convertJsonToParsedData: its argument
    legacyDates, \* the non-ISO strings the host's Date parser accepts
    result,      \* convertJsonToParsedData: what the call ended in
    call,        \* extract*: the environment of the call (key, file, API)
    jsonText,    \* extract*: response.text
    tried,       \* extract*: the parse strategies attempted, in order
    settled      \* extract*: how the returned promise settled

vars == <<pc, value, cleaned, jsonData, legacyDates, result,
          call, jsonText, tried, settled>>

(***************************************************************************)
(* Bounds of the model.                                                    *)
(***************************************************************************)
\* The longest cleanValue argument, in tokens of CleanTokens.
MaxTokens == 3

\* The longest enumerated input array of convertJsonToParsedData (the arrays
\* that reach past the sample are built apart, from SampleLimit).
MaxRows == 2

\* The longest enumerated response text, in tokens of TextTokens.
MaxTextLen == 4

(***************************************************************************)
(* Characters.                                                             *)
(***************************************************************************)
\* The characters of a string written out, one by one.
Chars(str) == [i \in 1..Len(str) |-> SubSeq(str, i, i)]

\* LineTerminator: LF, CR, LINE SEPARATOR, PARAGRAPH SEPARATOR.  These are
\* the characters the regular expression atom "." does not match.
LineTerminators == {"\n", "\r", "U+2028", "U+2029"}

\* WhiteSpace and LineTerminator together: what String.prototype.trim,
\* StringToNumber and the regular expression class \s take for white space.
\* They are TAB, VT, FF and ZWNBSP (U+FEFF), the space separators of Unicode
\* (SPACE, U+00A0, U+1680, U+2000 to U+200A, U+202F, U+205F, U+3000), and
\* the line terminators.
WhiteSpace ==
    {"\t", "", "\f", "﻿",
     " ", "U+00A0", "U+1680", "U+2000", "U+2001", "U+2002", "U+2003", "U+2004",
     "U+2005", "U+2006", "U+2007", "U+2008", "U+2009", "U+200A", "U+202F",
     "U+205F", "U+3000"} \cup LineTerminators

Digit == {"0", "1", "2", "3", "4", "5", "6", "7", "8", "9"}

DigitVal ==
    ("0" :> 0) @@ ("1" :> 1) @@ ("2" :> 2) @@ ("3" :> 3) @@ ("4" :> 4) @@
    ("5" :> 5) @@ ("6" :> 6) @@ ("7" :> 7) @@ ("8" :> 8) @@ ("9" :> 9)

DigitChar == <<"0", "1", "2", "3", "4", "5", "6", "7", "8", "9">>

\* The class [a-zA-Z0-9_] of the column-name sanitizer.
WordChars ==
    Digit \cup {"_"}
    \cup {SubSeq("abcdefghijklmnopqrstuvwxyz", i, i) : i \in 1..26}
    \cup {SubSeq("ABCDEFGHIJKLMNOPQRSTUVWXYZ", i, i) : i \in 1..26}

(***************************************************************************)
(* JavaScript values.                                                      *)
(***************************************************************************)
Null == [t |-> "null"]
Undefined == [t |-> "undefined"]
Str(s) == [t |-> "str", s |-> s]
Bool(b) == [t |-> "bool", b |-> b]

\* A finite Number is the decimal (-1)^neg * m * 10^e, m the digit string of
\* a natural number not divisible by 10 (zero is "0" with e = 0): the
\* shortest decimal that names the double.
NaN == [t |-> "num", k |-> "nan", neg |-> FALSE, m |-> <<>>, e |-> 0]
Infinity(neg) == [t |-> "num", k |-> "inf", neg |-> neg, m |-> <<>>, e |-> 0]
Finite(neg, m, e) == [t |-> "num", k |-> "fin", neg |-> neg, m |-> m, e |-> e]
Zero(neg) == Finite(neg, <<"0">>, 0)

\* An object as JSON.parse makes it: its own properties in creation order,
\* keys distinct, values any JSON values.
Obj(entries) == [t |-> "object", entries |-> entries]

\* An array: its elements (no holes, as JSON.parse and push make them).
Arr(a) == [t |-> "array", a |-> a]

\* The built-in prototype objects, and a built-in function by its name.
Builtin(what) == [t |-> "obj", what |-> what]
ObjectPrototype == Builtin("Object.prototype")
Fn(name) == [t |-> "function", name |-> name]

IsNullish(v) == v.t \in {"null", "undefined"}

\* What a raised TypeError leaves of a call.
TypeError == [t |-> "throw", error |-> "TypeError"]

(***************************************************************************)
(* Strings.                                                                *)
(***************************************************************************)
RECURSIVE TrimStart(_)
TrimStart(s) ==
    IF s = <<>> THEN s
    ELSE IF Head(s) \in WhiteSpace THEN TrimStart(Tail(s)) ELSE s

RECURSIVE TrimEnd(_)
TrimEnd(s) ==
    IF s = <<>> THEN s
    ELSE IF s[Len(s)] \in WhiteSpace THEN TrimEnd(SubSeq(s, 1, Len(s) - 1))
    ELSE s

\* String.prototype.trim
Trim(s) == TrimEnd(TrimStart(s))

RECURSIVE IntToStr(_)
\* The decimal digits of a natural number.
IntToStr(n) ==
    IF n < 10 THEN <<DigitChar[n + 1]>>
    ELSE IntToStr(n \div 10) \o <<DigitChar[(n % 10) + 1]>>

IsDigits(s) == \A i \in 1..Len(s) : s[i] \in Digit

RECURSIVE DigitsValue(_)
DigitsValue(s) ==
    IF s = <<>> THEN 0
    ELSE DigitsValue(SubSeq(s, 1, Len(s) - 1)) * 10 + DigitVal[s[Len(s)]]

RECURSIVE Zeros(_)
Zeros(n) == IF n <= 0 THEN <<>> ELSE <<"0">> \o Zeros(n - 1)

\* The first index of s holding a character of set cs, or 0.
IndexOf(s, cs) ==
    IF \E i \in 1..Len(s) : s[i] \in cs
    THEN CHOOSE i \in 1..Len(s) :
            s[i] \in cs /\ \A j \in 1..(i - 1) : s[j] \notin cs
    ELSE 0

Min(a, b) == IF a < b THEN a ELSE b

Max(a, b) == IF a > b THEN a ELSE b

(***************************************************************************)
(* Evaluation order.  CHOOSE res \in {e : x \in {v}} : TRUE is e with x    *)
(* standing for the value of v, worked out once before e: a name defined   *)
(* by LET, or an operator's argument, is otherwise worked out anew         *)
(* wherever it is used.                                                    *)
(***************************************************************************)

(***************************************************************************)
(* Natural numbers of any size, for the arithmetic of Number(): the        *)
(* sequence of decimal digits (0..9), least significant first; zero is the *)
(* empty sequence.                                                         *)
(***************************************************************************)
BigPad(x, n) == [i \in 1..n |-> IF i <= Len(x) THEN x[i] ELSE 0]

\* The highest index in lo..hi that holds a nonzero digit, or 0.
BigTop(x, lo, hi) ==
    (CHOOSE res \in {
        IF \A i \in r[1]..r[2] : y[i] = 0 THEN 0
        ELSE CHOOSE i \in r[1]..r[2] :
                y[i] # 0 /\ \A j \in (i + 1)..r[2] : y[j] = 0
      : y \in {x},
        r \in {<<lo, hi>>}} : TRUE)

\* v without its leading zeros.
BigTrim(v) == (CHOOSE res \in {
                  SubSeq(x, 1, BigTop(x, 1, Len(x)))
                : x \in {v}} : TRUE)

\* The sign of v - w: that of the difference at the highest position where
\* the two differ.
BigCmp(v, w) ==
    (CHOOSE res \in {
        (CHOOSE res \in {
            IF x = y THEN 0
            ELSE (CHOOSE res \in {
                     IF x[i] < y[i] THEN -1 ELSE 1
                   : i \in {CHOOSE i \in 1..Len(x) :
                               x[i] # y[i]
                               /\ \A j \in (i + 1)..Len(x) : x[j] = y[j]}} : TRUE)
          : x \in {BigPad(a, Max(Len(a), Len(b)))},
            y \in {BigPad(b, Max(Len(a), Len(b)))}} : TRUE)
      : a \in {v},
        b \in {w}} : TRUE)

RECURSIVE IntToBig(_)
IntToBig(n) == IF n = 0 THEN <<>> ELSE <<n % 10>> \o IntToBig(n \div 10)

\* The number held by the w digits of x from position from on (w <= 8),
\* and the n low digits of the number p.  Digits past the end of x are 0.
BigLimb(x, from, w) ==
    LET D(j) == IF j < w /\ from + j <= Len(x) THEN x[from + j] * 10^j ELSE 0
    IN  D(0) + D(1) + D(2) + D(3) + D(4) + D(5) + D(6) + D(7)

BigDigits(p, n) == [i \in 1..n |-> (p \div 10^(i - 1)) % 10]

\* The least number of halvings that cuts n digits into blocks of w.
BigLevels(n, w) == CHOOSE l \in 0..20 : w * 2^l >= n /\ (l = 0 \/ w * 2^(l - 1) < n)

RECURSIVE BigMulCarry(_, _, _, _, _)
\* x * k + c goes on from position from over a block of 4 * 2^level digits:
\* acc.d are the digits of the result below from, acc.c is the carry into
\* it.  A block is done by halves, the last ones four digits at a time.
BigMulCarry(x, k, acc, from, level) ==
    IF from > Len(x) THEN acc
    ELSE IF level = 0
         THEN (CHOOSE res \in {
                  [d |-> acc.d \o BigDigits(p, n), c |-> p \div 10^n]
                : p \in {BigLimb(x, from, 4) * k + acc.c},
                  n \in {Min(4, Len(x) - from + 1)}} : TRUE)
    ELSE (CHOOSE res \in {
             BigMulCarry(x, k, low, from + 4 * 2^(level - 1), level - 1)
           : low \in {BigMulCarry(x, k, acc, from, level - 1)}} : TRUE)

\* v * k + c for 0 <= c <= k <= 2^17.
BigMulAdd(v, k0, c0) ==
    (CHOOSE res \in {
        (CHOOSE res \in {
            r.d \o IntToBig(r.c)
          : r \in {BigMulCarry(x, kc[1], [d |-> <<>>, c |-> kc[2]], 1,
                               BigLevels(Len(x), 4))}} : TRUE)
      : x \in {v},
        kc \in {<<k0, c0>>}} : TRUE)

RECURSIVE BigAddCarry(_, _, _, _, _)
\* x + y (of one length) goes on from position from over a block of
\* 8 * 2^level digits, after acc.
BigAddCarry(x, y, acc, from, level) ==
    IF from > Len(x) THEN acc
    ELSE IF level = 0
         THEN (CHOOSE res \in {
                  [d |-> acc.d \o BigDigits(p, n), c |-> p \div 10^n]
                : p \in {BigLimb(x, from, 8) + BigLimb(y, from, 8) + acc.c},
                  n \in {Min(8, Len(x) - from + 1)}} : TRUE)
    ELSE (CHOOSE res \in {
             BigAddCarry(x, y, low, from + 8 * 2^(level - 1), level - 1)
           : low \in {BigAddCarry(x, y, acc, from, level - 1)}} : TRUE)

BigAdd(v, w) ==
    (CHOOSE res \in {
        (CHOOSE res \in {
            (CHOOSE res \in {
                r.d \o IntToBig(r.c)
              : r \in {BigAddCarry(x, y, [d |-> <<>>, c |-> 0], 1,
                                   BigLevels(Len(x), 8))}} : TRUE)
          : x \in {BigPad(a, Max(Len(a), Len(b)))},
            y \in {BigPad(b, Max(Len(a), Len(b)))}} : TRUE)
      : a \in {v},
        b \in {w}} : TRUE)

RECURSIVE BigSubBorrow(_, _, _, _, _)
\* x - y (of one length) goes on from position from over a block of
\* 8 * 2^level digits, after acc; acc.c is the borrow.
BigSubBorrow(x, y, acc, from, level) ==
    IF from > Len(x) THEN acc
    ELSE IF level = 0
         THEN (CHOOSE res \in {
                  IF p < 0
                  THEN [d |-> acc.d \o BigDigits(p + 10^n, n), c |-> 1]
                  ELSE [d |-> acc.d \o BigDigits(p, n), c |-> 0]
                : p \in {BigLimb(x, from, 8) - BigLimb(y, from, 8) - acc.c},
                  n \in {Min(8, Len(x) - from + 1)}} : TRUE)
    ELSE (CHOOSE res \in {
             BigSubBorrow(x, y, low, from + 8 * 2^(level - 1), level - 1)
           : low \in {BigSubBorrow(x, y, acc, from, level - 1)}} : TRUE)

\* v - w for v >= w.
BigSub(v, w) ==
    (CHOOSE res \in {
        (CHOOSE res \in {
            BigTrim(BigSubBorrow(x, y, [d |-> <<>>, c |-> 0], 1,
                                 BigLevels(Len(x), 8)).d)
          : x \in {BigPad(a, Max(Len(a), Len(b)))},
            y \in {BigPad(b, Max(Len(a), Len(b)))}} : TRUE)
      : a \in {v},
        b \in {w}} : TRUE)

\* v * 10^n for n >= 0.
BigShift(v, n) ==
    (CHOOSE res \in {
        IF x = <<>> THEN x ELSE [i \in 1..n |-> 0] \o x
      : x \in {v}} : TRUE)

RECURSIVE SmallPow(_, _)
SmallPow(b, n) == IF n = 0 THEN 1 ELSE b * SmallPow(b, n - 1)

RECURSIVE BigTimesPow(_, _, _)
\* v * b^n for b = 2 or 5 and n >= 0, by factors of at most 2^17 and 5^7.
BigTimesPow(v, b, n) ==
    IF n <= (IF b = 2 THEN 17 ELSE 7) THEN BigMulAdd(v, SmallPow(b, n), 0)
    ELSE (CHOOSE res \in {
             BigTimesPow(half, b, left)
           : half \in {BigTimesPow(v, b, n \div 2)},
             left \in {n - (n \div 2)}} : TRUE)

\* Digit strings (most significant digit first) and big naturals.
ToBig(s) ==
    (CHOOSE res \in {
        BigTrim([i \in 1..Len(ds) |-> DigitVal[ds[Len(ds) + 1 - i]]])
      : ds \in {s}} : TRUE)

FromBig(v) ==
    (CHOOSE res \in {
        [i \in 1..Len(x) |-> DigitChar[x[Len(x) + 1 - i] + 1]]
      : x \in {v}} : TRUE)

(***************************************************************************)
(* The Number type: IEEE 754 binary64.  A positive finite double is        *)
(* f * 2^q with 0 < f < 2^53 and -1074 <= q <= 971, where f >= 2^52 unless *)
(* q = -1074 (the subnormal doubles).                                      *)
(***************************************************************************)
Two52 == ToBig(Chars("4503599627370496"))

MinBinaryExp == -1074

MaxBinaryExp == 971

\* The double nearest to v * 10^e (v a nonzero big natural), ties to the
\* even f: [k |-> "fin", f, q], or zero or infinity when it rounds there.
\* The exponent q is an estimate raised until v * 10^e / 2^q is below 2^53,
\* and at least the exponent of the subnormals.
ToDouble(v, e) ==
    LET \* a lower bound of floor(log2(10^sci)) - 52, at most four below it
        Estimate(sci) ==
            (IF sci >= 0 THEN (sci * 33219) \div 10000
             ELSE (sci * 33220) \div 10000) - 52
        \* d * 10^e / 2^q as x * 10^s
        Scaled(d, q) ==
            IF q <= 0 THEN [x |-> BigTimesPow(d, 2, 0 - q), s |-> e]
            ELSE [x |-> BigTimesPow(d, 5, q), s |-> e - q]
        \* floor(x * 10^s)
        IntPart(sc) ==
            IF sc.s >= 0 THEN BigShift(sc.x, sc.s)
            ELSE SubSeq(sc.x, (0 - sc.s) + 1, Len(sc.x))
        \* the fraction of x * 10^s against one half: -1 below, 0 equal,
        \* 1 above
        FracPart(sc) ==
            IF sc.s >= 0 \/ BigTop(sc.x, 1, Min(0 - sc.s, Len(sc.x))) = 0
            THEN -1
            ELSE LET n == 0 - sc.s
                     top == IF n <= Len(sc.x) THEN sc.x[n] ELSE 0
                     rest == BigTop(sc.x, 1, Min(n - 1, Len(sc.x))) # 0
                 IN  IF top > 5 \/ (top = 5 /\ rest) THEN 1
                     ELSE IF top = 5 THEN 0 ELSE -1
        \* x * 10^s rounded to a whole number, ties to even
        RoundToEven(sc) ==
            (CHOOSE res \in {
                IF frac = 1 \/ (frac = 0 /\ f # <<>> /\ f[1] % 2 = 1)
                THEN BigAdd(f, <<1>>) ELSE f
              : f \in {BigTrim(IntPart(sc))},
                frac \in {FracPart(sc)}} : TRUE)
        \* the double g * 2^q, g at most 2^53: zero when g is zero, in the
        \* next binade when g is 2^53, infinite beyond the largest exponent
        Double(g, q) ==
            (CHOOSE res \in {
                IF g = <<>> THEN [k |-> "zero", f |-> <<>>, q |-> 0]
                ELSE IF (IF carried THEN q + 1 ELSE q) > MaxBinaryExp
                     THEN [k |-> "inf", f |-> <<>>, q |-> 0]
                ELSE [k |-> "fin", f |-> IF carried THEN Two52 ELSE g,
                      q |-> IF carried THEN q + 1 ELSE q]
              : carried \in {BigCmp(g, BigMulAdd(Two52, 2, 0)) = 0}} : TRUE)
    IN  (CHOOSE res \in {
            (CHOOSE res \in {
                (CHOOSE res \in {
                    (CHOOSE res \in {
                        (CHOOSE res \in {Double(g, q) : g \in {RoundToEven(sc)}} : TRUE)
                      : sc \in {Scaled(d, q)}} : TRUE)
                  : q \in {Max(q0 + Cardinality({t \in 1..5 :
                                      BigCmp(f0, BigTimesPow(Two52, 2, t)) >= 0}),
                               MinBinaryExp)}} : TRUE)
              : f0 \in {IntPart(Scaled(d, q0))}} : TRUE)
          : d \in {v},
            q0 \in {Estimate(Len(v) - 1 + e)}} : TRUE)

\* The decimal of the fewest significant digits in the rounding interval
\* lo..hi of v (closed when the double's f is even); of two of one length
\* the nearer to v, the even one on a tie.  With n digits the candidates are
\* v cut down to its n leading digits and the next n-digit decimal above;
\* when one of them is in the interval, so is one with n + 1 digits.
ShortestIn(v, lo, hi, closed) ==
    LET \* v with the digits below its n most significant ones set to zero
        Down(n) == [i \in 1..Len(v) |-> IF i > Len(v) - n THEN v[i] ELSE 0]
        Upp(n) == BigAdd(Down(n), BigShift(<<1>>, Len(v) - n))
        \* x is in the rounding interval
        In(x) ==
            \/ BigCmp(lo, x) < 0 /\ BigCmp(x, hi) < 0
            \/ closed /\ (BigCmp(lo, x) = 0 \/ BigCmp(x, hi) = 0)
        Found(n) == n >= Len(v) \/ In(Down(n)) \/ In(Upp(n))
    IN  (CHOOSE res \in {
            IF n >= Len(v) THEN v
            ELSE (CHOOSE res \in {
                     (CHOOSE res \in {
                         IF inDown /\ inUpp
                         THEN (CHOOSE res \in {
                                  IF nearer < 0 THEN down
                                  ELSE IF nearer > 0 THEN upp
                                  ELSE IF down[Len(v) - n + 1] % 2 = 0 THEN down
                                  ELSE upp
                                : nearer \in {BigCmp(BigSub(v, down), BigSub(upp, v))}} : TRUE)
                         ELSE IF inDown THEN down ELSE upp
                       : inDown \in {In(down)},
                         inUpp \in {In(upp)}} : TRUE)
                   : down \in {Down(n)},
                     upp \in {Upp(n)}} : TRUE)
          : n \in {CHOOSE n \in 1..Len(v) : Found(n) /\ (n = 1 \/ ~Found(n - 1))}} : TRUE)

\* The shortest decimal m * 10^e that reads back as the double f * 2^q (the
\* digits Number::toString prints).  All is counted in units of 2^(q-2),
\* times a power of ten when q < 2, so that the double v and the midpoints
\* lo and hi to its two neighbours are whole numbers; the lower neighbour
\* of a power of two is half as far.
Shortest(f, q) ==
    LET \* x * 10^base, x nonzero, with the trailing zeros of x moved into
        \* the exponent
        Decimal(x, base) ==
            LET zeros == (CHOOSE i \in 1..Len(x) :
                            x[i] # 0 /\ \A j \in 1..(i - 1) : x[j] = 0) - 1
            IN  [m |-> FromBig(SubSeq(x, zeros + 1, Len(x))),
                 e |-> base + zeros]
    IN  (CHOOSE res \in {
            (CHOOSE res \in {
                (CHOOSE res \in {
                    Decimal(x, IF q >= 2 THEN 0 ELSE q - 2)
                  : x \in {ShortestIn(v, lo, hi, f[1] % 2 = 0)}} : TRUE)
              : lo \in {IF BigCmp(f, Two52) = 0 /\ q > MinBinaryExp
                        THEN BigSub(v, unit) ELSE BigSub(v, BigMulAdd(unit, 2, 0))},
                hi \in {BigAdd(v, BigMulAdd(unit, 2, 0))}} : TRUE)
          : unit \in {IF q >= 2 THEN BigTimesPow(<<1>>, 2, q - 2)
                      ELSE BigTimesPow(<<1>>, 5, 2 - q)},
            v \in {IF q >= 2 THEN BigTimesPow(BigMulAdd(f, 4, 0), 2, q - 2)
                   ELSE BigTimesPow(BigMulAdd(f, 4, 0), 5, 2 - q)}} : TRUE)

(***************************************************************************)
(* Number(string) and String(number).                                      *)
(***************************************************************************)
\* How many "0" s starts with, and ends with.
LeadingZeros(s) ==
    IF \A i \in 1..Len(s) : s[i] = "0" THEN Len(s)
    ELSE (CHOOSE i \in 1..Len(s) :
            s[i] # "0" /\ \A j \in 1..(i - 1) : s[j] = "0") - 1

TrailingZeros(s) ==
    IF \A i \in 1..Len(s) : s[i] = "0" THEN Len(s)
    ELSE Len(s) - (CHOOSE i \in 1..Len(s) :
                      s[i] # "0" /\ \A j \in (i + 1)..Len(s) : s[j] = "0")

\* The Number nearest to (-1)^neg * ds * 10^e, ds a digit string.  From
\* 10^309 on it is infinite and below 10^-324 zero.  A decimal of at most 15
\* significant digits between 10^-307 and 10^308 is the shortest name of its
\* own double; any other is rounded to the nearest double and named by that
\* double's shortest decimal.
Normalize(neg, ds, e) ==
    (CHOOSE res \in {
        (CHOOSE res \in {
            IF d1 = <<>> THEN Zero(neg)
            ELSE IF Len(m) - 1 + ex > 308 THEN Infinity(neg)
            ELSE IF Len(m) - 1 + ex < -324 THEN Zero(neg)
            ELSE IF Len(m) <= 15 /\ Len(m) - 1 + ex >= -307
                    /\ Len(m) - 1 + ex <= 307
                 THEN Finite(neg, m, ex)
            ELSE (CHOOSE res \in {
                     IF dbl.k = "zero" THEN Zero(neg)
                     ELSE IF dbl.k = "inf" THEN Infinity(neg)
                     ELSE (CHOOSE res \in {
                              Finite(neg, dec.m, dec.e)
                            : dec \in {Shortest(dbl.f, dbl.q)}} : TRUE)
                   : dbl \in {ToDouble(ToBig(m), ex)}} : TRUE)
          : m \in {SubSeq(d1, 1, Len(d1) - TrailingZeros(d1))},
            ex \in {e + TrailingZeros(d1)}} : TRUE)
      : d1 \in {SubSeq(ds, LeadingZeros(ds) + 1, Len(ds))}} : TRUE)

HexVal ==
    DigitVal @@ ("a" :> 10) @@ ("b" :> 11) @@ ("c" :> 12) @@ ("d" :> 13) @@
    ("e" :> 14) @@ ("f" :> 15) @@ ("A" :> 10) @@ ("B" :> 11) @@ ("C" :> 12) @@
    ("D" :> 13) @@ ("E" :> 14) @@ ("F" :> 15)

RECURSIVE RadixValue(_, _, _, _, _)
\* The number acc continued by the digits lo..hi of s in the radix; the
\* range is read in two halves.
RadixValue(s, radix, lo, hi, acc) ==
    IF lo > hi THEN acc
    ELSE IF lo = hi THEN BigMulAdd(acc, radix, HexVal[s[lo]])
    ELSE (CHOOSE res \in {
             (CHOOSE res \in {
                 RadixValue(s, radix, mid + 1, hi, low)
               : low \in {RadixValue(s, radix, lo, mid, acc)}} : TRUE)
           : mid \in {(lo + hi) \div 2}} : TRUE)

\* NonDecimalIntegerLiteral: 0x.., 0o.., 0b.. (no sign allowed), or NaN.
NonDecimalLiteral(s) ==
    LET radix == IF s[2] \in {"x", "X"} THEN 16
                 ELSE IF s[2] \in {"o", "O"} THEN 8 ELSE 2
        body == SubSeq(s, 3, Len(s))
    IN  IF body # <<>> /\ \A i \in 1..Len(body) :
              body[i] \in DOMAIN HexVal /\ HexVal[body[i]] < radix
        THEN Normalize(FALSE,
                       FromBig(BigTrim(RadixValue(body, radix, 1, Len(body),
                                                 <<>>))), 0)
        ELSE NaN

\* StrUnsignedDecimalLiteral: digits, an optional fraction, an optional
\* exponent part; at least one digit before or after the point.
UnsignedDecimal(neg, s) ==
    LET ePos == IndexOf(s, {"e", "E"})
        mant == IF ePos = 0 THEN s ELSE SubSeq(s, 1, ePos - 1)
        expo == IF ePos = 0 THEN <<>> ELSE SubSeq(s, ePos + 1, Len(s))
        expNeg == expo # <<>> /\ expo[1] = "-"
        expDigits == IF expo # <<>> /\ expo[1] \in {"+", "-"}
                     THEN Tail(expo) ELSE expo
        dot == IndexOf(mant, {"."})
        int == IF dot = 0 THEN mant ELSE SubSeq(mant, 1, dot - 1)
        frac == IF dot = 0 THEN <<>> ELSE SubSeq(mant, dot + 1, Len(mant))
        \* an exponent of more than six digits counts as 10^6: the
        \* literal is then zero or infinite whatever its other digits
        expSize == LET d1 == SubSeq(expDigits, LeadingZeros(expDigits) + 1,
                                    Len(expDigits))
                   IN  IF Len(d1) > 6 THEN 1000000 ELSE DigitsValue(d1)
        expVal == IF expNeg THEN 0 - expSize ELSE expSize
    IN  IF /\ IsDigits(int) /\ IsDigits(frac) /\ Len(int) + Len(frac) >= 1
           /\ (ePos # 0 => (expDigits # <<>> /\ IsDigits(expDigits)))
        THEN Normalize(neg, int \o frac, expVal - Len(frac))
        ELSE NaN

\* Number(s) for a string s (StringToNumber): surrounding white space is
\* skipped, the empty string is 0, anything off the grammar is NaN.
StringToNumber(s) ==
    LET t == Trim(s)
        signed == t # <<>> /\ t[1] \in {"+", "-"}
        neg == t # <<>> /\ t[1] = "-"
        body == IF signed THEN Tail(t) ELSE t
    IN  IF t = <<>> THEN Zero(FALSE)
        ELSE IF Len(t) >= 2 /\ t[1] = "0"
                /\ t[2] \in {"x", "X", "o", "O", "b", "B"}
             THEN NonDecimalLiteral(t)
        ELSE IF body = Chars("Infinity") THEN Infinity(neg)
        ELSE UnsignedDecimal(neg, body)

\* Number::toString(x) in radix 10.
NumberToString(x) ==
    IF x.k = "nan" THEN <<"N", "a", "N">>
    ELSE IF x.k = "inf"
         THEN (IF x.neg THEN <<"-">> ELSE <<>>) \o Chars("Infinity")
    ELSE IF x.m = <<"0">> THEN <<"0">>
    ELSE LET ds == x.m
             k == Len(ds)
             n == k + x.e
             ex == n - 1
             body ==
                IF k <= n /\ n <= 21 THEN ds \o Zeros(n - k)
                ELSE IF 0 < n /\ n <= 21
                     THEN SubSeq(ds, 1, n) \o <<".">> \o SubSeq(ds, n + 1, k)
                ELSE IF -6 < n /\ n <= 0
                     THEN <<"0", ".">> \o Zeros(0 - n) \o ds
                ELSE (IF k = 1 THEN ds
                      ELSE <<ds[1], ".">> \o SubSeq(ds, 2, k))
                     \o <<"e">>
                     \o (IF ex < 0 THEN <<"-">> ELSE <<"+">>)
                     \o IntToStr(IF ex < 0 THEN 0 - ex ELSE ex)
         IN  (IF x.neg THEN <<"-">> ELSE <<>>) \o body

(***************************************************************************)
(* Property access: Object.keys(v) and v[key].                             *)
(***************************************************************************)
ProtoKey == Chars("__proto__")

\* The function-valued properties of the built-in prototypes (ECMAScript
\* 2024 with Annex B, as Node.js 22 has them), by name.
Members(proto) ==
    {Chars(n) : n \in
        CASE proto = ObjectPrototype ->
                {"constructor", "__defineGetter__", "__defineSetter__",
                 "hasOwnProperty", "__lookupGetter__", "__lookupSetter__",
                 "isPrototypeOf", "propertyIsEnumerable", "toString",
                 "valueOf", "toLocaleString"}
          [] proto = Builtin("Number.prototype") ->
                {"constructor", "toExponential", "toFixed", "toPrecision",
                 "toString", "valueOf", "toLocaleString"}
          [] proto = Builtin("Boolean.prototype") ->
                {"constructor", "toString", "valueOf"}
          [] proto = Builtin("String.prototype") ->
                {"constructor", "anchor", "at", "big", "blink", "bold",
                 "charAt", "charCodeAt", "codePointAt", "concat", "endsWith",
                 "fontcolor", "fontsize", "fixed", "includes", "indexOf",
                 "isWellFormed", "italics", "lastIndexOf", "link",
                 "localeCompare", "match", "matchAll", "normalize", "padEnd",
                 "padStart", "repeat", "replace", "replaceAll", "search",
                 "slice", "small", "split", "strike", "sub", "substr",
                 "substring", "sup", "startsWith", "toString",
                 "toWellFormed", "trim", "trimStart", "trimLeft", "trimEnd",
                 "trimRight", "toLocaleLowerCase", "toLocaleUpperCase",
                 "toLowerCase", "toUpperCase", "valueOf"}
          [] proto = Builtin("Array.prototype") ->
                {"constructor", "at", "concat", "copyWithin", "fill", "find",
                 "findIndex", "findLast", "findLastIndex", "lastIndexOf",
                 "pop", "push", "reverse", "shift", "unshift", "slice",
                 "sort", "splice", "includes", "indexOf", "join", "keys",
                 "entries", "values", "forEach", "filter", "flat", "flatMap",
                 "map", "every", "some", "reduce", "reduceRight",
                 "toLocaleString", "toString", "toReversed", "toSorted",
                 "toSpliced", "with"}}

\* The function proto[key]: the property's name is the function's name, but
\* for the constructor and for the two aliases of Annex B.
Member(proto, key) ==
    Fn(CASE key = Chars("constructor") ->
                (CASE proto = ObjectPrototype -> Chars("Object")
                   [] proto = Builtin("Number.prototype") -> Chars("Number")
                   [] proto = Builtin("Boolean.prototype") -> Chars("Boolean")
                   [] proto = Builtin("String.prototype") -> Chars("String")
                   [] proto = Builtin("Array.prototype") -> Chars("Array"))
          [] key = Chars("trimLeft") -> Chars("trimStart")
          [] key = Chars("trimRight") -> Chars("trimEnd")
          [] OTHER -> key)

\* [[GetPrototypeOf]] of v (of the wrapper object, for a primitive v).
PrototypeOf(v) ==
    CASE v.t = "num" -> Builtin("Number.prototype")
      [] v.t = "bool" -> Builtin("Boolean.prototype")
      [] v.t = "str" -> Builtin("String.prototype")
      [] v.t = "array" -> Builtin("Array.prototype")
      [] v.t = "object" -> ObjectPrototype
      [] v.t = "obj" -> IF v = ObjectPrototype THEN Null ELSE ObjectPrototype

\* a <= b for the digit strings of two natural numbers, no leading zeros.
DigitsLeq(a, b) ==
    \/ Len(a) < Len(b)
    \/ /\ Len(a) = Len(b)
       /\ \/ a = b
          \/ LET i == CHOOSE i \in 1..Len(a) :
                        a[i] # b[i] /\ \A j \in 1..(i - 1) : a[j] = b[j]
             IN  DigitVal[a[i]] < DigitVal[b[i]]

\* A canonical array index ("0", "7", "12", at most 2^32 - 2): such keys are
\* enumerated first, in ascending numeric order.
IsArrayIndex(k) ==
    /\ k # <<>> /\ IsDigits(k)
    /\ (k[1] = "0" => Len(k) = 1)
    /\ DigitsLeq(k, Chars("4294967294"))

\* The array index k is below n, the length of a string or an array.
IndexBelow(k, n) ==
    IsArrayIndex(k) /\ DigitsLeq(k, IntToStr(n)) /\ k # IntToStr(n)

RECURSIVE SortIndexKeys(_)
SortIndexKeys(ks) ==
    IF ks = {} THEN <<>>
    ELSE LET least == CHOOSE k \in ks : \A o \in ks : DigitsLeq(k, o)
         IN  <<least>> \o SortIndexKeys(ks \ {least})

EntryKeys(entries) == [i \in 1..Len(entries) |-> entries[i][1]]

\* Object.keys(v) for a non-null v: own enumerable string keys, array indices
\* first (ascending), then the others in creation order.  A string and an
\* array have their indices for keys, a number and a boolean none.
ObjectKeys(v) ==
    CASE v.t = "object" ->
            LET ks == EntryKeys(v.entries)
            IN  SortIndexKeys({ks[i] : i \in {j \in 1..Len(ks) : IsArrayIndex(ks[j])}})
                \o SelectSeq(ks, LAMBDA k : ~IsArrayIndex(k))
      [] v.t = "str" -> [i \in 1..Len(v.s) |-> IntToStr(i - 1)]
      [] v.t = "array" -> [i \in 1..Len(v.a) |-> IntToStr(i - 1)]
      [] OTHER -> <<>>

\* Object.keys(null) and null[key] raise a TypeError.
ThrowsOnAccess(v) == IsNullish(v)

\* v has key as an own property ("__proto__" of Object.prototype, an
\* accessor, is left to GetProp).
HasOwn(v, key) ==
    CASE v.t = "object" -> \E i \in 1..Len(v.entries) : v.entries[i][1] = key
      [] v.t = "str" -> key = Chars("length") \/ IndexBelow(key, Len(v.s))
      [] v.t = "array" -> key = Chars("length") \/ IndexBelow(key, Len(v.a))
      [] v.t = "obj" ->
            \/ key \in Members(v)
            \/ key = Chars("length")
               /\ v.what \in {"String.prototype", "Array.prototype"}
      [] OTHER -> FALSE

\* The value of the own property key of v.  (String.prototype is a String
\* object of value "", Array.prototype an empty array: their length is 0.)
GetOwn(v, key) ==
    CASE v.t = "object" ->
            v.entries[CHOOSE i \in 1..Len(v.entries) : v.entries[i][1] = key][2]
      [] v.t = "str" ->
            IF key = Chars("length") THEN Normalize(FALSE, IntToStr(Len(v.s)), 0)
            ELSE Str(<<v.s[DigitsValue(key) + 1]>>)
      [] v.t = "array" ->
            IF key = Chars("length") THEN Normalize(FALSE, IntToStr(Len(v.a)), 0)
            ELSE v.a[DigitsValue(key) + 1]
      [] v.t = "obj" ->
            IF key \in Members(v) THEN Member(v, key) ELSE Zero(FALSE)

RECURSIVE GetProp(_, _)
\* v[key] for a non-null v: the own property, else what the prototype chain
\* hands down; "__proto__" is the accessor of Object.prototype, which every
\* chain here ends in, and reads the prototype of v.
GetProp(v, key) ==
    IF HasOwn(v, key) THEN GetOwn(v, key)
    ELSE IF key = ProtoKey THEN PrototypeOf(v)
    ELSE IF PrototypeOf(v) = Null THEN Undefined
    ELSE GetProp(PrototypeOf(v), key)

(***************************************************************************)
(* Number(v) and String(v).                                                *)
(***************************************************************************)
\* Number(v) for a primitive v.
ToNumber(v) ==
    CASE v.t = "num" -> v
      [] v.t = "str" -> StringToNumber(v.s)
      [] v.t = "null" -> Zero(FALSE)
      [] v.t = "undefined" -> NaN
      [] v.t = "bool" -> IF v.b THEN Normalize(FALSE, <<"1">>, 0) ELSE Zero(FALSE)

RECURSIVE StringThrows(_)
\* String(v) raises a TypeError: an own "toString" of a parsed object is no
\* function, and valueOf (own: no function; inherited: returns the object)
\* gives no primitive either.  An array raises when one of its elements
\* does.
StringThrows(v) ==
    CASE v.t = "object" -> HasOwn(v, Chars("toString"))
      [] v.t = "array" ->
            \E i \in 1..Len(v.a) : ~IsNullish(v.a[i]) /\ StringThrows(v.a[i])
      [] OTHER -> FALSE

RECURSIVE StringOf(_)
RECURSIVE JoinFrom(_, _)
\* Array.prototype.join of the elements of a from index i on: null and
\* undefined give the empty string, a comma goes between two elements.
JoinFrom(a, i) ==
    IF i > Len(a) THEN <<>>
    ELSE (IF IsNullish(a[i]) THEN <<>> ELSE StringOf(a[i]))
         \o (IF i < Len(a) THEN <<",">> ELSE <<>>)
         \o JoinFrom(a, i + 1)

\* String(v), where it does not raise.  The prototypes of the wrappers are
\* wrapper objects themselves: Number.prototype of 0, Boolean.prototype of
\* false, String.prototype of "", and Array.prototype is an empty array.
StringOf(v) ==
    CASE v.t = "str" -> v.s
      [] v.t = "num" -> NumberToString(v)
      [] v.t = "bool" -> IF v.b THEN Chars("true") ELSE Chars("false")
      [] v.t = "null" -> Chars("null")
      [] v.t = "undefined" -> Chars("undefined")
      [] v.t = "array" -> JoinFrom(v.a, 1)
      [] v.t = "object" -> Chars("[object Object]")
      [] v.t = "function" ->
            Chars("function ") \o v.name \o Chars("() { [native code] }")
      [] v.t = "obj" ->
            (CASE v.what = "Object.prototype" -> Chars("[object Object]")
               [] v.what = "Number.prototype" -> <<"0">>
               [] v.what = "Boolean.prototype" -> Chars("false")
               [] v.what = "String.prototype" -> <<>>
               [] v.what = "Array.prototype" -> <<>>)

(***************************************************************************)
(* cleanValue                                                              *)
(***************************************************************************)
\* strVal.replace(/,/g, '')
StripCommas(s) == SelectSeq(s, LAMBDA c : c # ",")

\* The pattern of /(Approx.)/i up to its last atom: the parentheses are a
\* capture group, not characters, and each letter matches in either case.
ApproxPattern ==
    <<{"a", "A"}, {"p", "P"}, {"p", "P"}, {"r", "R"}, {"o", "O"}, {"x", "X"}>>

\* /(Approx.)/i matches at index i: the six letters, then "." which is any
\* one character other than a line terminator.
ApproxAt(s, i) ==
    /\ i + Len(ApproxPattern) <= Len(s)
    /\ \A j \in 1..Len(ApproxPattern) : s[i + j - 1] \in ApproxPattern[j]
    /\ s[i + Len(ApproxPattern)] \notin LineTerminators

\* strVal.replace(/(Approx.)/i, ''): the regular expression has no g flag, so
\* only the leftmost match is removed.
StripApprox(s) ==
    IF \E i \in 1..Len(s) : ApproxAt(s, i)
    THEN LET i == CHOOSE i \in 1..Len(s) :
                    ApproxAt(s, i) /\ \A j \in 1..(i - 1) : ~ApproxAt(s, j)
         IN  SubSeq(s, 1, i - 1) \o SubSeq(s, i + Len(ApproxPattern) + 1, Len(s))
    ELSE s

\* The strings cleanValue turns into null.
Sentinels ==
    {<<"-", "-", "-">>, <<"-">>, <<"N", "I", "L">>, <<"N", "A">>, <<>>}

cleanValue(v) ==
    IF IsNullish(v) THEN Null
    ELSE IF StringThrows(v) THEN TypeError
    ELSE LET strVal == Trim(StripApprox(StripCommas(Trim(StringOf(v)))))
         IN  IF strVal \in Sentinels THEN Null ELSE Str(strVal)

(***************************************************************************)
(* The objects the normalizer builds (newRow, samples, columnTypes): plain *)
(* objects used as maps.  own is the map of own properties, proto the      *)
(* prototype, which the inherited accessor "__proto__" reads and writes.   *)
(***************************************************************************)
EmptyObject == [own |-> <<>>, proto |-> ObjectPrototype]

\* obj[key] = v
Put(obj, key, v) ==
    IF key \in DOMAIN obj.own THEN [obj EXCEPT !.own[key] = v]
    ELSE IF key = ProtoKey /\ obj.proto.t # "null"
         \* the setter Object.prototype.__proto__: an object or null becomes
         \* the prototype, any other value is ignored; no own property is made
         THEN (IF v.t \in {"obj", "object", "array", "function", "null"}
               THEN [obj EXCEPT !.proto = v] ELSE obj)
    ELSE [obj EXCEPT !.own = (key :> v) @@ obj.own]

\* obj[key]
Get(obj, key) ==
    IF key \in DOMAIN obj.own THEN obj.own[key]
    ELSE IF obj.proto.t = "null" THEN Undefined
    ELSE IF key = ProtoKey THEN obj.proto
    ELSE GetProp(obj.proto, key)

\* obj[key].push(v), obj[key] being an array
Push(obj, key, v) ==
    IF key \in DOMAIN obj.own
    THEN [obj EXCEPT !.own[key] = Arr(Append(@.a, v))]
    ELSE [obj EXCEPT !.proto = Arr(Append(@.a, v))]

(***************************************************************************)
(* Column names.                                                           *)
(***************************************************************************)
\* The class [#\-\s] of the sanitizer's first replace.
EdgeChars == {"#", "-"} \cup WhiteSpace

RECURSIVE StripLeading(_)
StripLeading(s) ==
    IF s # <<>> /\ Head(s) \in EdgeChars THEN StripLeading(Tail(s)) ELSE s

RECURSIVE StripTrailing(_)
StripTrailing(s) ==
    IF s # <<>> /\ s[Len(s)] \in EdgeChars
    THEN StripTrailing(SubSeq(s, 1, Len(s) - 1)) ELSE s

\* .replace(/^[#\-\s]+|[#\-\s]+$/g, '')
StripEdges(s) == StripTrailing(StripLeading(s))

RECURSIVE UnderscoreSpaces(_)
\* .replace(/\s+/g, '_'): each maximal run of white space becomes one "_".
UnderscoreSpaces(s) ==
    IF s = <<>> THEN s
    ELSE IF Head(s) \in WhiteSpace
         THEN <<"_">> \o UnderscoreSpaces(TrimStart(s))
    ELSE <<Head(s)>> \o UnderscoreSpaces(Tail(s))

\* .replace(/[^a-zA-Z0-9_]/g, '')
KeepWordChars(s) == SelectSeq(s, LAMBDA c : c \in WordChars)

\* CleanColumnName with the fallback numbered from 0.
CleanColumnName_ZeroBased(col, index) ==
    LET sanitized == KeepWordChars(UnderscoreSpaces(StripEdges(Trim(col))))
    IN  IF sanitized = <<>> THEN Chars("Column_") \o IntToStr(index)
        ELSE sanitized

\* The callback of columns.map: index is the 0-based position of col.
CleanColumnName(col, index) ==
    LET sanitized == KeepWordChars(UnderscoreSpaces(StripEdges(Trim(col))))
    IN  IF sanitized = <<>> THEN Chars("Column_") \o IntToStr(index + 1)
        ELSE sanitized

CleanColumns(columns) ==
    [i \in 1..Len(columns) |-> CleanColumnName(columns[i], i - 1)]

(***************************************************************************)
(* new Date(string): the host's parser.  A string in the ECMAScript        *)
(* date-time format (YYYY, YYYY-MM or YYYY-MM-DD, alone or followed by     *)
(* THH:mm, THH:mm:ss or THH:mm:ss.sss and an optional Z or +HH:mm), every  *)
(* field in its range, parses on every host.  Whether any other string     *)
(* parses is the host's choice (V8 goes on to a lenient parser of its own  *)
(* that takes "1/2/2024", "2024-02-30", "Sheet 1" and more for dates),     *)
(* held in legacyDates.                                                    *)
(***************************************************************************)
TwoDigits(s, i) == i + 1 <= Len(s) /\ s[i] \in Digit /\ s[i + 1] \in Digit

TwoDigitsValue(s, i) == DigitVal[s[i]] * 10 + DigitVal[s[i + 1]]

DaysInMonth(y, m) ==
    IF m = 2
    THEN (IF y % 4 = 0 /\ (y % 100 # 0 \/ y % 400 = 0) THEN 29 ELSE 28)
    ELSE IF m \in {4, 6, 9, 11} THEN 30 ELSE 31

IsoDatePart(d) ==
    /\ Len(d) \in {4, 7, 10}
    /\ IsDigits(SubSeq(d, 1, 4))
    /\ Len(d) >= 7 =>
          (d[5] = "-" /\ TwoDigits(d, 6) /\ TwoDigitsValue(d, 6) \in 1..12)
    /\ Len(d) = 10 =>
          /\ d[8] = "-" /\ TwoDigits(d, 9)
          /\ TwoDigitsValue(d, 9) \in
                1..DaysInMonth(DigitsValue(SubSeq(d, 1, 4)), TwoDigitsValue(d, 6))

IsoZone(z) ==
    \/ z = <<>>
    \/ z = <<"Z">>
    \/ /\ Len(z) = 6 /\ z[1] \in {"+", "-"} /\ z[4] = ":"
       /\ TwoDigits(z, 2) /\ TwoDigitsValue(z, 2) <= 23
       /\ TwoDigits(z, 5) /\ TwoDigitsValue(z, 5) <= 59

\* .sss and the zone
IsoFraction(r) ==
    /\ Len(r) >= 4 /\ r[1] = "." /\ IsDigits(SubSeq(r, 2, 4))
    /\ IsoZone(SubSeq(r, 5, Len(r)))

\* :ss, then a fraction or the zone
IsoSeconds(r) ==
    /\ Len(r) >= 3 /\ r[1] = ":" /\ TwoDigits(r, 2)
    /\ TwoDigitsValue(r, 2) <= 59
    /\ LET rest == SubSeq(r, 4, Len(r))
       IN  IsoZone(rest) \/ IsoFraction(rest)

\* HH:mm and what follows; 24:00 is the end of the day, with no second or
\* millisecond after it but zero.
IsoTimePart(t) ==
    /\ Len(t) >= 5 /\ TwoDigits(t, 1) /\ t[3] = ":" /\ TwoDigits(t, 4)
    /\ TwoDigitsValue(t, 1) <= 24 /\ TwoDigitsValue(t, 4) <= 59
    /\ TwoDigitsValue(t, 1) = 24 =>
          \A i \in 4..Len(t) : t[i] \in Digit => t[i] = "0"
    /\ LET rest == SubSeq(t, 6, Len(t))
       IN  IsoZone(rest) \/ IsoSeconds(rest)

IsoDateTime(s) ==
    LET tPos == IndexOf(s, {"T"})
    IN  IF tPos = 0 THEN IsoDatePart(s)
        ELSE /\ IsoDatePart(SubSeq(s, 1, tPos - 1))
             /\ IsoTimePart(SubSeq(s, tPos + 1, Len(s)))

\* !isNaN(new Date(s).getTime())
DateParses(s) == IsoDateTime(s) \/ s \in legacyDates

(***************************************************************************)
(* convertJsonToParsedData                                                 *)
(***************************************************************************)
\* The sample taken for type inference: Math.min(100, cleanedRows.length).
SampleLimit == 100

TypeName(n) == [t |-> "type", name |-> n]

EmptyTable ==
    [t |-> "ok", columns |-> <<>>, rows |-> <<>>, columnTypes |-> EmptyObject]

\* !jsonData || jsonData.length === 0
IsEmptyInput(jd) == IsNullish(jd) \/ Len(jd.a) = 0

\* NoColumns with the early return for a key-less first record left out.
NoColumns_Never(columns) == FALSE

\* columns.length === 0
NoColumns(columns) == Len(columns) = 0

RECURSIVE CleanRowFrom(_, _, _, _, _)
\* The loop of the cleanedRows callback from position i on.
CleanRowFrom(row, columns, cleanedColumns, i, newRow) ==
    IF i > Len(cleanedColumns) THEN newRow
    ELSE CleanRowFrom(row, columns, cleanedColumns, i + 1,
            Put(newRow, cleanedColumns[i], cleanValue(GetProp(row, columns[i]))))

CleanRow(row, columns, cleanedColumns) ==
    CleanRowFrom(row, columns, cleanedColumns, 1, EmptyObject)

RECURSIVE InitSamples(_, _, _)
\* for (const col of cleanedColumns) samples[col] = []
InitSamples(cleanedColumns, i, samples) ==
    IF i > Len(cleanedColumns) THEN samples
    ELSE InitSamples(cleanedColumns, i + 1,
                     Put(samples, cleanedColumns[i], Arr(<<>>)))

RECURSIVE SampleRow(_, _, _, _)
\* The inner loop of "Collect samples" for one row.
SampleRow(row, cleanedColumns, i, samples) ==
    IF i > Len(cleanedColumns) THEN samples
    ELSE LET v == Get(row, cleanedColumns[i])
         IN  SampleRow(row, cleanedColumns, i + 1,
                IF v # Null /\ v # Undefined
                THEN Push(samples, cleanedColumns[i], v) ELSE samples)

RECURSIVE CollectSamples(_, _, _, _, _)
\* The outer loop of "Collect samples" over rows lo .. hi, in row order: the
\* range is walked in two halves, the first before the second.
CollectSamples(cleanedRows, cleanedColumns, lo, hi, samples) ==
    IF lo > hi THEN samples
    ELSE IF lo = hi THEN SampleRow(cleanedRows[lo], cleanedColumns, 1, samples)
    ELSE (CHOOSE res \in {
             CollectSamples(cleanedRows, cleanedColumns,
                            (lo + hi) \div 2 + 1, hi, firstHalf)
           : firstHalf \in {CollectSamples(cleanedRows, cleanedColumns,
                                           lo, (lo + hi) \div 2, samples)}} : TRUE)

SampleSize(cleanedRows) == Min(SampleLimit, Len(cleanedRows))

\* The predicates of the three colSamples.every(...) calls.
IsBooleanSample(val) ==
    val.t = "bool" \/ val = Str(Chars("true")) \/ val = Str(Chars("false"))

IsNumberSample(val) ==
    CASE val.t = "num" -> TRUE
      [] val.t = "str" -> StringToNumber(val.s).k # "nan" /\ Trim(val.s) # <<>>
      [] OTHER -> FALSE

IsDateSample(val) ==
    CASE val.t = "str" -> DateParses(val.s) /\ Len(val.s) > 5
      [] OTHER -> FALSE

Every(seq, P(_)) == \A i \in 1..Len(seq) : P(seq[i])

\* The body of the "Infer types from samples" loop for one column.
InferType(colSamples) ==
    IF Len(colSamples) = 0 THEN "string"
    ELSE IF Every(colSamples, IsBooleanSample) THEN "boolean"
    ELSE IF Every(colSamples, IsNumberSample) THEN "number"
    ELSE IF Every(colSamples, IsDateSample) THEN "date"
    ELSE "string"

RECURSIVE InferTypes(_, _, _, _)
InferTypes(cleanedColumns, samples, i, columnTypes) ==
    IF i > Len(cleanedColumns) THEN columnTypes
    ELSE InferTypes(cleanedColumns, samples, i + 1,
            Put(columnTypes, cleanedColumns[i],
                TypeName(InferType(Get(samples, cleanedColumns[i]).a))))

RECURSIVE FinalRowFrom(_, _, _, _)
\* The loop of the finalRows callback from position i on.
FinalRowFrom(cleanedColumns, columnTypes, i, newRow) ==
    IF i > Len(cleanedColumns) THEN newRow
    ELSE LET col == cleanedColumns[i]
         IN  FinalRowFrom(cleanedColumns, columnTypes, i + 1,
                IF Get(columnTypes, col) = TypeName("number")
                   /\ Get(newRow, col) # Null
                THEN Put(newRow, col, ToNumber(Get(newRow, col)))
                ELSE newRow)

\* const newRow = { ...row }: the own properties, on a fresh plain object.
FinalRow(row, cleanedColumns, columnTypes) ==
    FinalRowFrom(cleanedColumns, columnTypes, 1,
                 [own |-> row.own, proto |-> ObjectPrototype])

\* The table built once the columns are known (lines 285-397).
BuildTable(a, columns) ==
    LET cleanedColumns == CleanColumns(columns)
        cleanedRows == [r \in 1..Len(a) |-> CleanRow(a[r], columns, cleanedColumns)]
        samples == CollectSamples(cleanedRows, cleanedColumns,
                                  1, SampleSize(cleanedRows),
                                  InitSamples(cleanedColumns, 1, EmptyObject))
        columnTypes == InferTypes(cleanedColumns, samples, 1, EmptyObject)
        finalRows == [r \in 1..Len(a) |->
                        FinalRow(cleanedRows[r], cleanedColumns, columnTypes)]
    IN  [t |-> "ok", columns |-> cleanedColumns, rows |-> finalRows,
         columnTypes |-> columnTypes]

\* The cleanedRows callback raises on this row: row[col] on null or
\* undefined, or String() in cleanValue.
RowThrows(row, columns) ==
    \/ ThrowsOnAccess(row)
    \/ \E i \in 1..Len(columns) : cleanValue(GetProp(row, columns[i])) = TypeError

convertJsonToParsedData(jd) ==
    IF IsEmptyInput(jd) THEN EmptyTable
    ELSE IF ThrowsOnAccess(jd.a[1]) THEN TypeError
    ELSE LET columns == ObjectKeys(jd.a[1])
         IN  IF NoColumns(columns) THEN EmptyTable
             ELSE IF \E r \in 1..Len(jd.a) : RowThrows(jd.a[r], columns)
                  THEN TypeError
             ELSE BuildTable(jd.a, columns)

(***************************************************************************)
(* Inputs.                                                                 *)
(***************************************************************************)
Idle == [t |-> "idle"]

RECURSIVE Flatten(_)
Flatten(ts) == IF ts = <<>> THEN <<>> ELSE Head(ts) \o Flatten(Tail(ts))

SeqsUpTo(S, n) == UNION {[1..k -> S] : k \in 0..n}

CleanTokens ==
    {<<"1">>, <<",">>, <<" ">>, <<"(">>, <<")">>, <<".">>, <<"-">>, <<"x">>,
     <<"\n">>, <<"N", "A">>, Chars("Approx"), <<"a", "P", "P", "R", "O", "X">>}

Seven == Finite(FALSE, <<"7">>, 0)

\* The arguments cleanValue is called with: strings of up to MaxTokens
\* tokens, the documented examples, strings with white space of every
\* kind, and the values that are no strings (the other JSON values, and
\* what a key the record lacks reads from the prototype chain).
CleanInputs ==
    {Str(Flatten(ts)) : ts \in SeqsUpTo(CleanTokens, MaxTokens)}
    \cup {Str(Chars("1,234 (Approx.)")), Str(Chars("237,706")), Str(Chars("NIL")), Str(<<" ", " ">>),
          Str(<<"(", "a", "p", "p", "r", "o", "x", ".", ")", " ", "5">>)}
    \cup {Str(<<w>> \o Chars("NIL") \o <<w>>) : w \in WhiteSpace}
    \cup {Str(Chars("Approx") \o <<w>>) : w \in WhiteSpace}
    \cup {Null, Undefined, Bool(TRUE), Bool(FALSE), Seven,
          Finite(TRUE, <<"1", "5">>, -1), Finite(FALSE, <<"5">>, -324),
          Finite(FALSE, <<"1">>, 21),
          Arr(<<>>), Arr(<<Seven, Null, Str(Chars("NIL"))>>),
          Arr(<<Arr(<<Seven>>), Seven>>),
          Obj(<<>>), Obj(<< <<Chars("toString"), Seven>> >>),
          Arr(<<Obj(<< <<Chars("toString"), Null>> >>)>>),
          ObjectPrototype, Builtin("Number.prototype"),
          Builtin("Boolean.prototype"), Builtin("String.prototype"),
          Builtin("Array.prototype"),
          Fn(Chars("Object")), Fn(Chars("trimStart"))}

Missing == [t |-> "missing"]

\* Cell values of the one-column arrays; Missing leaves the key out.
WideValues ==
    {Missing, Null, Str(Chars("1")), Str(Chars("237,706")), Str(Chars("NIL")), Str(Chars("true")),
     Str(Chars("Ravi Kumar")), Str(Chars("2024-01-05")), Str(Chars("1/2")), Str(Chars("1/2/2024")),
     Str(Chars("1,234 (Approx.)")), Seven, Bool(FALSE)}

\* Cell values of the two-column arrays.
NarrowValues == {Missing, Str(Chars("1")), Str(Chars("x"))}

RECURSIVE RecordOf(_, _)
\* The object with the header's keys, in order, less the Missing ones.
RecordOf(header, cells) ==
    IF header = <<>> THEN <<>>
    ELSE (IF Head(cells) = Missing THEN <<>>
          ELSE << <<Head(header), Head(cells)>> >>)
         \o RecordOf(Tail(header), Tail(cells))

Records(header, values) ==
    {Obj(RecordOf(header, cells)) : cells \in [1..Len(header) -> values]}

\* Arrays of up to MaxRows records of one header: one column with the wide
\* values, or two columns with the narrow ones.
DenseInputs ==
    UNION ({ {Arr(a) : a \in SeqsUpTo(Records(h, WideValues), MaxRows)} :
                h \in {<<Chars("#")>>, <<Chars("Name")>>, <<Chars("Amount ")>>, <<ProtoKey>>} }
           \cup { {Arr(a) : a \in SeqsUpTo(Records(h, NarrowValues), MaxRows)} :
                h \in {<<Chars("#"), Chars("Name")>>, <<Chars("A#"), Chars("A")>>,
                       <<Chars("Column_2"), Chars("#")>>, <<Chars("Name"), ProtoKey>>,
                       <<Chars("Unit  Price"), Chars("A")>>} })

\* Arrays whose elements are not all objects of one shape.
MixedInputs ==
    {Arr(a) : a \in
        SeqsUpTo({Null, Obj(<<>>), Obj(<< <<Chars("A"), Str(Chars("1"))>> >>), Seven,
                  Bool(TRUE), Str(<<>>),
                  Obj(<< <<Chars("Name"), Str(Chars("x"))>>, <<Chars("A"), Str(Chars("true"))>> >>),
                  Str(<<"a", "b">>)},
                 MaxRows)}

\* Arrays that reach the sample limit: a row repeated SampleLimit - 1 or
\* SampleLimit times, then one more row.
LongInputs ==
    {Arr([r \in 1..(n + 1) |->
            Obj(<< <<Chars("Amount "), IF r <= n THEN vw[1] ELSE vw[2]>> >>)]) :
        n \in {SampleLimit - 1, SampleLimit},
        vw \in {Null, Str(Chars("1")), Str(Chars("x")), Str(Chars("true")), Str(Chars("2024-01-05"))}
               \X {Null, Str(Chars("1")), Str(Chars("x")), Str(Chars("true")), Str(Chars("2024-01-05"))}}

\* The documented end-to-end examples.
Example_Hash_Name ==
    Arr(<< Obj(<< <<Chars("#"), Str(Chars("1"))>>, <<Chars("Name"), Str(Chars("Ravi Kumar"))>> >>) >>)

Example_Amount ==
    Arr(<< Obj(<< <<Chars("Amount "), Str(Chars("237,706"))>> >>),
           Obj(<< <<Chars("Amount "), Str(Chars("NIL"))>> >>) >>)

\* One-record arrays about a single point each: keys that are array
\* indices at the edge of the index range, white space other than the
\* space in a key and in a value, decimals at the edges of the double
\* range, dates off the calendar, nested values, and rows that are arrays.
EdgeInputs ==
    {Arr(<<rec>>) : rec \in
    {Obj(<< <<Chars("A"), Str(Chars("x"))>>, <<Chars("4294967295"), Str(Chars("1"))>>,
            <<Chars("4294967294"), Str(Chars("1"))>>, <<Chars("7"), Str(Chars("1"))>> >>),
     Obj(<< <<<<"a", "\f", "b">>, Str(<<"\f", "1">>)>>,
            <<<<"U+2028", "a">>, Str(<<"1", "U+2028">>)>> >>),
     Obj(<< <<<<"a", "U+00A0", "b">>, Str(<<"U+00A0", "1">>)>>,
            <<<<"U+1680", "k">>, Str(<<"U+1680", "x">>)>> >>),
     Obj(<< <<<<"d">>, Str(<<"U+00A0">> \o Chars("1/2/2024"))>>,
            <<<<"n">>, Str(<<"U+1680">> \o Chars("NIL") \o <<"U+00A0">>)>> >>),
     Obj(<< <<Chars("A"), Str(Chars("1e-324"))>>, <<Chars("Name"), Str(Chars("3e-324"))>> >>),
     Obj(<< <<Chars("A"), Str(Chars("2e308"))>>,
            <<Chars("Name"), Str(Chars("9007199254740993"))>> >>),
     Obj(<< <<Chars("A"), Str(Chars("2023-02-29"))>>,
            <<Chars("Name"), Str(Chars("2024-02-29T24:00"))>> >>),
     Obj(<< <<Chars("A"), Arr(<<Seven, Seven>>)>>, <<Chars("Name"), Obj(<<>>)>> >>),
     Obj(<< <<Chars("A"), Obj(<< <<Chars("toString"), Str(Chars("x"))>> >>)>> >>),
     Arr(<<Str(Chars("1")), Seven>>),
     Arr(<<>>)}}

\* Arrays whose first record has keys that later elements inherit (a
\* method of a prototype) or read through the accessor "__proto__".

InheritingInputs ==
    {Arr(<< Obj(<< <<ks[1], Str(Chars("1"))>>, <<ks[2], Str(Chars("x"))>> >>), el >>) :
        ks \in {<<Chars("constructor"), Chars("A")>>, <<Chars("toFixed"), Chars("length")>>,
                <<Chars("#__proto__"), ProtoKey>>},
        el \in {Obj(<<>>), Seven, Str(Chars("x")), Bool(TRUE), Arr(<<Seven>>)}}

ConvertInputs ==
    {Null, Undefined, Example_Hash_Name, Example_Amount}
    \cup DenseInputs \cup MixedInputs \cup LongInputs
    \cup EdgeInputs \cup InheritingInputs

\* The hosts a call on jd can tell apart.  The strings the call can hand to
\* new Date() with an effect on the type of a column, and that are not in
\* the ECMAScript format, are cleaned cells of the sampled records longer
\* than five characters: a host parses any of them.
Hosts(jd) ==
    IF IsEmptyInput(jd) \/ ThrowsOnAccess(jd.a[1]) THEN {{}}
    ELSE LET columns == ObjectKeys(jd.a[1])
             sampled == {r \in 1..Min(SampleLimit, Len(jd.a)) :
                            ~RowThrows(jd.a[r], columns)}
             cells == {cleanValue(GetProp(jd.a[r], columns[i])) :
                          r \in sampled, i \in 1..Len(columns)} \ {Null}
         IN  SUBSET {c.s : c \in {d \in cells :
                                    Len(d.s) > 5 /\ ~IsoDateTime(d.s)}}

(***************************************************************************)
(* The calls.                                                              *)
(***************************************************************************)
InitClean ==
    /\ pc = "clean"
    /\ value \in CleanInputs
    /\ cleaned = Idle
    /\ jsonData = Idle /\ legacyDates = {} /\ result = Idle
    /\ call = Idle /\ jsonText = Idle /\ tried = <<>> /\ settled = Idle

\* One call of cleanValue(value).
CleanValueCall ==
    /\ pc = "clean"
    /\ cleaned' = cleanValue(value)
    /\ pc' = "cleaned"
    /\ UNCHANGED <<value, jsonData, legacyDates, result, call, jsonText,
                   tried, settled>>

NextClean == CleanValueCall

SpecClean == InitClean /\ [][NextClean]_vars

InitConvert ==
    /\ pc = "convert"
    /\ jsonData \in ConvertInputs
    /\ legacyDates \in Hosts(jsonData)
    /\ result = Idle
    /\ value = Idle /\ cleaned = Idle
    /\ call = Idle /\ jsonText = Idle /\ tried = <<>> /\ settled = Idle

\* One call of convertJsonToParsedData(jsonData): it returns a table or
\* raises.
ConvertCall ==
    /\ pc = "convert"
    /\ result' = convertJsonToParsedData(jsonData)
    /\ pc' = "converted"
    /\ UNCHANGED <<value, cleaned, jsonData, legacyDates, call, jsonText,
                   tried, settled>>

NextConvert == ConvertCall

SpecConvert == InitConvert /\ [][NextConvert]_vars

(***************************************************************************)
(* extractTableFromPDFBuffer and extractTableFromPDF.                      *)
(*                                                                         *)
(* The response text is a sequence of lexical tokens: "FENCE" is three     *)
(* backticks, "WS" one space character, "QUOTE" a double quote, "1" the    *)
(* digit 1, "x" a letter, and "json", "null", "{}", "[", "]", ","          *)
(* stand for themselves.  JSON.parse and the two regular expressions are   *)
(* computed on the tokens.                                                 *)
(***************************************************************************)
RECURSIVE SkipWs(_, _)
\* The first index from i on that holds no white space.
SkipWs(toks, i) ==
    IF i <= Len(toks) /\ toks[i] = "WS" THEN SkipWs(toks, i + 1) ELSE i

RECURSIVE DigitsEnd(_, _)
\* The first index from i on that holds no digit.
DigitsEnd(toks, i) ==
    IF i <= Len(toks) /\ toks[i] = "1" THEN DigitsEnd(toks, i + 1) ELSE i

\* The first index after i that holds tok, or 0.
NextIndexOf(toks, i, tok) ==
    IF \E j \in (i + 1)..Len(toks) : toks[j] = tok
    THEN CHOOSE j \in (i + 1)..Len(toks) :
            toks[j] = tok /\ \A k \in (i + 1)..(j - 1) : toks[k] # tok
    ELSE 0

SyntaxError == [ok |-> FALSE, v |-> Undefined, next |-> 0]

Parsed(v, next) == [ok |-> TRUE, v |-> v, next |-> next]

RECURSIVE ParseValue(_, _)
RECURSIVE ParseElements(_, _, _)

\* A JSON value starting at index i: a number, null, the empty object, a
\* string (anything up to the next quote) or an array.
ParseValue(toks, i) ==
    IF i > Len(toks) THEN SyntaxError
    ELSE CASE toks[i] = "1" ->
                LET j == DigitsEnd(toks, i)
                IN  Parsed(StringToNumber([k \in 1..(j - i) |-> "1"]), j)
           [] toks[i] = "null" -> Parsed(Null, i + 1)
           [] toks[i] = "{}" -> Parsed(Obj(<<>>), i + 1)
           [] toks[i] = "QUOTE" ->
                LET j == NextIndexOf(toks, i, "QUOTE")
                IN  IF j = 0 THEN SyntaxError
                    ELSE Parsed(Str(SubSeq(toks, i + 1, j - 1)), j + 1)
           [] toks[i] = "[" ->
                LET k == SkipWs(toks, i + 1)
                IN  IF k <= Len(toks) /\ toks[k] = "]"
                    THEN Parsed(Arr(<<>>), k + 1)
                    ELSE ParseElements(toks, k, <<>>)
           [] OTHER -> SyntaxError

\* The elements of an array from index i on, acc being those read so far.
ParseElements(toks, i, acc) ==
    LET el == ParseValue(toks, i)
        k == SkipWs(toks, el.next)
    IN  IF ~el.ok \/ k > Len(toks) THEN SyntaxError
        ELSE IF toks[k] = "]" THEN Parsed(Arr(Append(acc, el.v)), k + 1)
        ELSE IF toks[k] = ","
             THEN ParseElements(toks, SkipWs(toks, k + 1), Append(acc, el.v))
        ELSE SyntaxError

\* JSON.parse(text): one value, white space around it, nothing else.
JSONParse(toks) ==
    LET r == ParseValue(toks, SkipWs(toks, 1))
    IN  IF r.ok /\ SkipWs(toks, r.next) > Len(toks) THEN r ELSE SyntaxError

NoMatch == [matched |-> FALSE, group |-> <<>>]

\* A "]" at index e that white space and a fence follow.
ClosesFence(toks, e) ==
    /\ toks[e] = "]"
    /\ SkipWs(toks, e + 1) <= Len(toks)
    /\ toks[SkipWs(toks, e + 1)] = "FENCE"

\* Where the group of the fenced pattern starts, for a fence at index i: after
\* an optional "json" and white space, at a "["; 0 when there is none.
FenceOpens(toks, i) ==
    LET j == IF i + 1 <= Len(toks) /\ toks[i + 1] = "json" THEN i + 2 ELSE i + 1
        k == SkipWs(toks, j)
    IN  IF toks[i] = "FENCE" /\ k <= Len(toks) /\ toks[k] = "["
           /\ \E e \in (k + 1)..Len(toks) : ClosesFence(toks, e)
        THEN k ELSE 0

\* jsonText.match(/```(?:json)?\s*(\[[\s\S]*\])\s*```/): the leftmost fence
\* the pattern matches from, the group running to the last "]" that closes.
FencedMatch(toks) ==
    IF \E i \in 1..Len(toks) : FenceOpens(toks, i) # 0
    THEN LET i == CHOOSE i \in 1..Len(toks) :
                    /\ FenceOpens(toks, i) # 0
                    /\ \A j \in 1..(i - 1) : FenceOpens(toks, j) = 0
             k == FenceOpens(toks, i)
             e == CHOOSE e \in (k + 1)..Len(toks) :
                    /\ ClosesFence(toks, e)
                    /\ \A f \in (e + 1)..Len(toks) : ~ClosesFence(toks, f)
         IN  [matched |-> TRUE, group |-> SubSeq(toks, k, e)]
    ELSE NoMatch

\* jsonText.match(/(\[[\s\S]*\])/): from the first "[" to the last "]".
ArrayMatch(toks) ==
    IF \E k, e \in 1..Len(toks) : k < e /\ toks[k] = "[" /\ toks[e] = "]"
    THEN LET k == CHOOSE k \in 1..Len(toks) :
                    toks[k] = "[" /\ \A j \in 1..(k - 1) : toks[j] # "["
             e == CHOOSE e \in 1..Len(toks) :
                    toks[e] = "]" /\ \A j \in (e + 1)..Len(toks) : toks[j] # "]"
         IN  [matched |-> TRUE, group |-> SubSeq(toks, k, e)]
    ELSE NoMatch

\* What a function body ends in, with the parse strategies it went through.
Return(v, strategies) == [kind |-> "return", value |-> v, tried |-> strategies]
Throw(strategies) == [kind |-> "throw", value |-> Undefined, tried |-> strategies]

\* if (!Array.isArray(jsonData)) jsonData = [jsonData]
EnsureArray(v) == IF v.t = "array" THEN v ELSE Arr(<<v>>)

\* !jsonText || jsonText.trim() === ''
IsBlank(text) ==
    text = Undefined \/ \A i \in 1..Len(text.s) : text.s[i] = "WS"

\* The body from "const jsonText = response.text" to "return jsonData || []".
ParseResponse(text) ==
    IF IsBlank(text) THEN Return(Arr(<<>>), <<>>)
    ELSE LET direct == JSONParse(text.s)
             jsonMatch == FencedMatch(text.s)
             arrayMatch == ArrayMatch(text.s)
         IN  IF direct.ok
             THEN Return(EnsureArray(direct.v), <<"direct">>)
             ELSE IF jsonMatch.matched
                  THEN (IF JSONParse(jsonMatch.group).ok
                        THEN Return(JSONParse(jsonMatch.group).v,
                                    <<"direct", "fenced">>)
                        ELSE Throw(<<"direct", "fenced">>))
             ELSE IF arrayMatch.matched /\ JSONParse(arrayMatch.group).ok
                  THEN Return(JSONParse(arrayMatch.group).v,
                              <<"direct", "fenced", "bare">>)
             ELSE Throw(<<"direct", "fenced", "bare">>)

\* Catch with the handler left out: what is thrown goes on.
Catch_Rethrow(outcome) == outcome

\* catch (error) { console.error(...); return []; }
Catch(outcome) ==
    IF outcome.kind = "throw" THEN Return(Arr(<<>>), outcome.tried)
    ELSE outcome

\* How the promise of an async function settles on its body's outcome.
Settle(outcome) ==
    IF outcome.kind = "throw" THEN [state |-> "rejected", value |-> Undefined]
    ELSE [state |-> "fulfilled", value |-> outcome.value]

Pending == [state |-> "pending", value |-> Undefined]

TextTokens == {"FENCE", "[", "]", "WS", ",", "1", "x", "QUOTE"}

\* A fenced array; a fenced block that is no JSON; an array in prose; a
\* fenced-looking piece inside the strings of an array in prose; a bracket
\* pair that is no JSON; null, and arrays of null and of objects.
Text_Fenced == <<"FENCE", "json", "WS", "[", "1", ",", "null", "]", "WS", "FENCE">>
Text_FencedBad == <<"FENCE", "[", "x", "]", "FENCE">>
Text_Prose == <<"x", "WS", "[", "{}", ",", "{}", "]", "x">>
Text_FenceInStrings ==
    <<"x", "[", "QUOTE", "FENCE", "[", "x", "QUOTE", ",",
      "QUOTE", "]", "FENCE", "QUOTE", "]">>
Text_ProseBad == <<"x", "[", "1", ",", "]", "x">>

\* What response.text can be: undefined, or a string.
ResponseTexts ==
    {Undefined}
    \cup {Str(toks) : toks \in SeqsUpTo(TextTokens, MaxTextLen)}
    \cup {Str(toks) : toks \in
            {Text_Fenced, Text_FencedBad, Text_Prose, Text_FenceInStrings,
             Text_ProseBad, <<"null">>, <<"[", "null", "]">>, <<"{}">>,
             <<"[", "{}", "]">>}}

\* The environment of a call: GEMINI_API_KEY is set, fs.existsSync finds
\* the file, and the part is built, that is fs.readFileSync (line 35, for a
\* path) and fileBuffer.toString('base64') (line 19) return.  The latter
\* throws for an argument that is no Buffer and for a Buffer whose base64
\* text is longer than the longest string.
Calls ==
    {[fn |-> "extractTableFromPDFBuffer", apiKey |-> k, fileExists |-> TRUE,
      readable |-> r] : k \in BOOLEAN, r \in BOOLEAN}
    \cup {[fn |-> "extractTableFromPDF", apiKey |-> k, fileExists |-> f,
           readable |-> r] : k \in BOOLEAN, f \in BOOLEAN, r \in BOOLEAN}

InitExtract ==
    /\ pc = "called"
    /\ call \in Calls
    /\ jsonText = Idle /\ tried = <<>> /\ settled = Pending
    /\ value = Idle /\ cleaned = Idle
    /\ jsonData = Idle /\ legacyDates = {} /\ result = Idle

\* extractTableFromPDFBuffer up to its await: without an API key it throws,
\* and so does bufferToGenerativePart when the base64 text cannot be built;
\* its catch turns either into [].
extractTableFromPDFBuffer ==
    /\ pc = "called" /\ call.fn = "extractTableFromPDFBuffer"
    /\ IF call.apiKey /\ call.readable
       THEN pc' = "awaiting" /\ UNCHANGED settled
       ELSE pc' = "settled" /\ settled' = Settle(Catch(Throw(<<>>)))
    /\ UNCHANGED <<value, cleaned, jsonData, legacyDates, result, call,
                   jsonText, tried>>

\* extractTableFromPDF up to its await: a missing key, a missing file or a
\* failing fileToGenerativePart (fs.readFileSync, or the base64 text) throws.
extractTableFromPDF ==
    /\ pc = "called" /\ call.fn = "extractTableFromPDF"
    /\ IF call.apiKey /\ call.fileExists /\ call.readable
       THEN pc' = "awaiting" /\ UNCHANGED settled
       ELSE pc' = "settled" /\ settled' = Settle(Catch(Throw(<<>>)))
    /\ UNCHANGED <<value, cleaned, jsonData, legacyDates, result, call,
                   jsonText, tried>>

\* ai.models.generateContent rejects: the await throws.
GenerateContentRejects ==
    /\ pc = "awaiting"
    /\ pc' = "settled"
    /\ settled' = Settle(Catch(Throw(<<>>)))
    /\ UNCHANGED <<value, cleaned, jsonData, legacyDates, result, call,
                   jsonText, tried>>

\* ai.models.generateContent resolves: the rest of the body runs on the
\* response text.
GenerateContentResolves ==
    /\ pc = "awaiting"
    /\ \E text \in ResponseTexts :
          /\ jsonText' = text
          /\ tried' = ParseResponse(text).tried
          /\ settled' = Settle(Catch(ParseResponse(text)))
    /\ pc' = "settled"
    /\ UNCHANGED <<value, cleaned, jsonData, legacyDates, result, call>>

NextExtract ==
    \/ extractTableFromPDFBuffer
    \/ extractTableFromPDF
    \/ GenerateContentRejects
    \/ GenerateContentResolves

SpecExtract == InitExtract /\ [][NextExtract]_vars

(***************************************************************************)
(* Properties of cleanValue (under SpecClean).                             *)
(***************************************************************************)
\* The literal "(Approx.)", letters in either case.
ApproxLiteral ==
    << {"("} >> \o ApproxPattern \o << {"."}, {")"} >>

LiteralAt(s, i) ==
    /\ i + Len(ApproxLiteral) - 1 <= Len(s)
    /\ \A j \in 1..Len(ApproxLiteral) : s[i + j - 1] \in ApproxLiteral[j]

RECURSIVE StripEveryLiteral(_)
\* s without any occurrence of the literal, scanning from the left.
StripEveryLiteral(s) ==
    IF s = <<>> THEN s
    ELSE IF LiteralAt(s, 1)
         THEN StripEveryLiteral(SubSeq(s, Len(ApproxLiteral) + 1, Len(s)))
    ELSE <<Head(s)>> \o StripEveryLiteral(Tail(s))

\* cleanValue as the Row Cleaner is described.
DescribedClean(v) ==
    IF IsNullish(v) THEN Null
    ELSE LET strVal == Trim(StripEveryLiteral(StripCommas(Trim(StringOf(v)))))
         IN  IF strVal \in Sentinels THEN Null ELSE Str(strVal)

\* C3: cleanValue removes every occurrence of the literal "(Approx.)", in any
\* letter case and nothing but that literal, from the comma-stripped text and
\* re-trims; so "1,234 (Approx.)" cleans to "1234" and "237,706" to "237706".
C3_StripsApproxLiteral ==
    pc = "cleaned" =>
        /\ cleaned = DescribedClean(value)
        /\ value = Str(Chars("1,234 (Approx.)")) => cleaned = Str(Chars("1234"))
        /\ value = Str(Chars("237,706")) => cleaned = Str(Chars("237706"))

(***************************************************************************)
(* Properties of convertJsonToParsedData (under SpecConvert).              *)
(***************************************************************************)
Converted == pc = "converted"

\* The call returned a table.
Returned == Converted /\ result.t = "ok"

Range(seq) == {seq[i] : i \in 1..Len(seq)}

\* The keys of the first record, for an input with a first record.
FirstKeys == ObjectKeys(jsonData.a[1])

\* The cleaned value of record r under the original key at position i.
CleanedAt(r, i) == cleanValue(GetProp(jsonData.a[r], FirstKeys[i]))

\* C1: no two positions of the returned columns hold the same name.
C1_ColumnsDistinct ==
    Returned =>
        \A i, j \in 1..Len(result.columns) :
            i # j => result.columns[i] # result.columns[j]

\* C2: convertJsonToParsedData returns a table for every input; it never
\* raises.
C2_NeverRaises == Converted => result.t = "ok"

\* The non-null cleaned values of the column at position i in the first
\* min(100, row count) records.
SampledCells(i) ==
    SelectSeq([r \in 1..Min(SampleLimit, Len(jsonData.a)) |-> CleanedAt(r, i)],
              LAMBDA c : c # Null)

Candidates == <<"boolean", "number", "date", "string">>

Qualifies(type, cells) ==
    CASE type = "boolean" -> Every(cells, IsBooleanSample)
      [] type = "number" -> Every(cells, IsNumberSample)
      [] type = "date" -> Every(cells, IsDateSample)
      [] OTHER -> TRUE

FirstQualifying(cells) ==
    IF cells = <<>> THEN "string"
    ELSE Candidates[CHOOSE k \in 1..Len(Candidates) :
            /\ Qualifies(Candidates[k], cells)
            /\ \A j \in 1..(k - 1) : ~Qualifies(Candidates[j], cells)]

\* C4: every column has a type recorded in columnTypes, which is the first of
\* boolean, number, date, string that all the non-null cleaned values of that
\* column in the first min(100, row count) records qualify for (string when
\* there is none); it is a function of that column's values alone.
C4_TypeIsFirstQualifying ==
    Returned =>
        \A i \in 1..Len(result.columns) :
            /\ result.columns[i] \in DOMAIN result.columnTypes.own
            /\ result.columnTypes.own[result.columns[i]]
                 = TypeName(FirstQualifying(SampledCells(i)))

\* The last position of the columns holding name.
LastPosition(name) ==
    CHOOSE i \in 1..Len(result.columns) :
        /\ result.columns[i] = name
        /\ \A j \in (i + 1)..Len(result.columns) : result.columns[j] # name

\* C5: in every row, sampled or not, a cell of a column typed number is null
\* or a number other than NaN, the numeric coercion of its cleaned string;
\* a cell of any other column is null or the cleaned string.
C5_NumberCellsAreNumbers ==
    Returned =>
        \A r \in 1..Len(result.rows) :
            \A name \in DOMAIN result.rows[r].own :
                LET cell == result.rows[r].own[name]
                    str == CleanedAt(r, LastPosition(name))
                IN  IF Get(result.columnTypes, name) = TypeName("number")
                    THEN \/ cell = Null /\ str = Null
                         \/ /\ cell.t = "num" /\ cell.k # "nan"
                            /\ cell = ToNumber(str)
                    ELSE cell = str

\* C7: the cell of record r under the sanitized name at position i is the
\* cleaned value of that record under the original key at position i, as a
\* number when the column is typed number; a missing key gives null.
C7_CellsFollowOriginalKeys ==
    Returned =>
        \A r \in 1..Len(result.rows) :
            \A i \in 1..Len(result.columns) :
                LET name == result.columns[i]
                    cell == Get(result.rows[r], name)
                    str == CleanedAt(r, i)
                IN  IF Get(result.columnTypes, name) = TypeName("number")
                       /\ str # Null
                    THEN cell = ToNumber(str)
                    ELSE cell = str

\* C8: when the first record has a key, there are as many columns as the
\* first record has keys, every row has exactly the columns as its keys, and
\* columnTypes has exactly the columns as its keys.
C8_ShapeMatchesColumns ==
    (Returned /\ ~IsEmptyInput(jsonData) /\ FirstKeys # <<>>) =>
        /\ Len(result.columns) = Len(FirstKeys)
        /\ Len(result.rows) = Len(jsonData.a)
        /\ \A r \in 1..Len(result.rows) :
              DOMAIN result.rows[r].own = Range(result.columns)
        /\ DOMAIN result.columnTypes.own = Range(result.columns)

\* The input is empty (or null or undefined), or its first record has no
\* keys.
ColumnLess ==
    \/ IsEmptyInput(jsonData)
    \/ ~IsNullish(jsonData.a[1]) /\ ObjectKeys(jsonData.a[1]) = <<>>

\* C9: an empty, null or undefined input, and an input whose first record has
\* no keys, give exactly {columns: [], rows: [], columnTypes: {}}, whatever
\* the later records hold.
C9_EmptyTable ==
    (Converted /\ ColumnLess) =>
        /\ result.t = "ok"
        /\ result.columns = <<>>
        /\ result.rows = <<>>
        /\ result.columnTypes = EmptyObject

\* A key-less first record followed by a null element: the empty table is
\* returned before any later record is read.
C9_Witness ==
    /\ Converted /\ ~IsEmptyInput(jsonData)
    /\ jsonData.a[1] = Obj(<<>>)
    /\ Len(jsonData.a) = 2 /\ jsonData.a[2] = Null
    /\ result = EmptyTable

One == Finite(FALSE, <<"1">>, 0)

\* C6 as amended: [{"#": "1", "Name": "Ravi Kumar"}] gives the columns
\* Column_1 (the fallback for "#") and Name; Column_1 is typed number and
\* its cell is the number 1.
C6_ExampleIsNumber ==
    (Converted /\ jsonData = Example_Hash_Name) =>
        /\ result.t = "ok"
        /\ result.columns = <<Chars("Column_1"), Chars("Name")>>
        /\ Len(result.rows) = 1
        /\ Get(result.columnTypes, Chars("Column_1")) = TypeName("number")
        /\ Get(result.rows[1], Chars("Column_1")) = One

C6_Witness == Returned /\ jsonData = Example_Hash_Name

\* C6: [{"#": "1", "Name": "Ravi Kumar"}] gives the columns Column_1 and
\* Name; Column_1 is typed string and its cell is the string "1".
C6_ExampleIsString ==
    (Converted /\ jsonData = Example_Hash_Name) =>
        /\ result.t = "ok"
        /\ result.columns = <<Chars("Column_1"), Chars("Name")>>
        /\ Get(result.columnTypes, Chars("Column_1")) = TypeName("string")
        /\ Get(result.rows[1], Chars("Column_1")) = Str(Chars("1"))

(***************************************************************************)
(* Properties of the extraction functions (under SpecExtract).             *)
(***************************************************************************)
Settled == pc = "settled"

\* The response text went to the parse strategies.
ParseStarted == Settled /\ jsonText # Idle /\ ~IsBlank(jsonText)

DirectFails == ~JSONParse(jsonText.s).ok

FencedMatches == FencedMatch(jsonText.s).matched

FencedParses == FencedMatches /\ JSONParse(FencedMatch(jsonText.s).group).ok

BareParses ==
    ArrayMatch(jsonText.s).matched /\ JSONParse(ArrayMatch(jsonText.s).group).ok

Tried(strategy) == strategy \in Range(tried)

\* The promise is fulfilled with an array.
ResolvesToArray ==
    settled.state = "fulfilled" /\ settled.value.t = "array"

\* C10: the strategies run in the order direct, fenced, bare; each one that
\* fails falls through to the next; when all fail, or the key or the file is
\* missing or the API call fails, the promise resolves to []; it never
\* rejects and always resolves to an array.
C10_EveryFailureFallsThrough ==
    Settled =>
        /\ ResolvesToArray
        /\ ~ParseStarted => settled.value = Arr(<<>>)
        /\ ParseStarted =>
              /\ tried \in {<<"direct">>, <<"direct", "fenced">>,
                            <<"direct", "fenced", "bare">>}
              /\ DirectFails => Tried("fenced")
              /\ (DirectFails /\ ~FencedParses) => Tried("bare")
              /\ (DirectFails /\ ~FencedParses /\ ~BareParses)
                    => settled.value = Arr(<<>>)

\* C10 as amended: a failed direct parse falls through to the fenced
\* pattern, and a fenced pattern that does not match falls through to the
\* bare-array pattern; a fenced block that matches but is no JSON ends the
\* chain in [] without the bare-array pattern being tried.  The promise
\* never rejects and always resolves to an array, which is [] when no
\* strategy that was tried parsed, and when the key or the file is missing
\* or the API call fails.
C10_FallsThroughOnNoMatch ==
    Settled =>
        /\ ResolvesToArray
        /\ ~ParseStarted => settled.value = Arr(<<>>)
        /\ ParseStarted =>
              /\ tried \in {<<"direct">>, <<"direct", "fenced">>,
                            <<"direct", "fenced", "bare">>}
              /\ Tried("fenced") <=> DirectFails
              /\ Tried("bare") <=> (DirectFails /\ ~FencedMatches)
              /\ (DirectFails /\ FencedMatches /\ ~FencedParses)
                    => settled.value = Arr(<<>>)
              /\ (DirectFails /\ ~FencedMatches /\ ~BareParses)
                    => settled.value = Arr(<<>>)

\* A fenced block that is no JSON, in a text whose bare-array match is JSON:
\* the call resolved to [] and the bare-array pattern was not tried.
C10_Witness ==
    /\ ParseStarted /\ DirectFails
    /\ FencedMatches /\ ~FencedParses /\ BareParses
    /\ tried = <<"direct", "fenced">>
    /\ settled = [state |-> "fulfilled", value |-> Arr(<<>>)]

====
